---- MODULE Spec2Model ----
(***************************************************************************)
(* Model of admin_app/app_utils.py: the Streamlit session state holding    *)
(* the live semantic model and the last validated snapshot, the editing    *)
(* handlers that mutate the live model, and the validate / upload flow.    *)
(*                                                                         *)
(* Protobuf messages are Python objects held by reference in               *)
(* st.session_state, so the session is modelled as a small heap of model   *)
(* objects plus the two references semantic_model and                      *)
(* last_validated_model.  One action is one run of one handler; the        *)
(* widget values and the outcomes of the external collaborators            *)
(* (validate, Snowflake PUT / REMOVE, schema inference, YAML parsing) are  *)
(* the inputs of the action.                                               *)
(***************************************************************************)
EXTENDS Integers, Sequences, FiniteSets, TLC

\* ------------------------------------------------------------------ bounds
MaxCols == 1   \* columns a table may be grown to by the "Add ..." dialogs
MaxTables == 3 \* tables the "Add Table" dialog may grow a model to
MaxLen == 3    \* longest collection of the tables the delete handlers are tried on

\* --------------------------------------------------------- input domains
ModelNames == {"m"}
Descriptions == {"", "d"}
TableNames == {"orders", "items"}
ColNames == {"id", "ts"}
\* Rows a data_editor grid may hand back (an empty row is an empty string).
EditorRows == {<<>>, <<"a", "", "b">>}
_TMP_FILE_NAME == "admin_app_temp_model"
FileNames == {_TMP_FILE_NAME, "orders_model"}
ObjIds == {"o1", "o2", "o3"}

\* ------------------------------------------------------------ data model
\* semantic_model_pb2.SemanticModel(): every field at its default.
EmptyModel ==
  [name |-> "", description |-> "", tables |-> <<>>, verified_queries |-> <<>>]

\* The fields of SemanticModel.DESCRIPTOR, in declaration order.
DESCRIPTOR_fields == <<"name", "description", "tables", "verified_queries">>

\* Dimension() / Measure() / TimeDimension() with a name typed in.
NewColumn(n) == [name |-> n, synonyms |-> <<>>, sample_values |-> <<>>]

\* Table() as built by add_new_table before the schema is fetched.
NewTable(n) ==
  [name |-> n, synonyms |-> <<>>,
   dimensions |-> <<>>, measures |-> <<>>, time_dimensions |-> <<>>]

\* ----------------------------------------------------------------- state
VARIABLES
  heap,        \* object id -> SemanticModel message
  semantic_model,        \* st.session_state.semantic_model (a reference)
  last_validated_model,  \* st.session_state.last_validated_model (a reference)
  validated,   \* st.session_state.validated
  stage,       \* names of the artifacts present on the Snowflake stage
  op,          \* the handler that ran last
  calls,       \* collaborator calls made by that run, in order
  messages,    \* st.error / st.warning / st.info / st.success shown by that run
  raised,      \* exception that left that run uncaught ("none" if none)
  local_files  \* files of upload_yaml's temporary directory still on disk

vars == <<heap, semantic_model, last_validated_model, validated, stage,
          op, calls, messages, raised, local_files>>

\* The message the session's semantic_model / last_validated_model refers to.
Live == heap[semantic_model]
Snapshot == heap[last_validated_model]

Call(c, a) == [call |-> c, arg |-> a]
Msg(k, t, a) == [kind |-> k, text |-> t, arg |-> a]

\* ---------------------------------------------------------- change tracker
\* update_last_validated_model deleting the verified_queries of the wrong
\* session object, the live model's.
update_last_validated_model_clears_live(h, sm, lvm) ==
  LET copied == [h EXCEPT ![lvm] = h[sm]]
  IN  [copied EXCEPT ![sm].verified_queries = <<>>]

\* update_last_validated_model on heap h: CopyFrom writes the fields of the
\* live message into the object last_validated_model refers to, then the
\* verified_queries of that object are deleted.
update_last_validated_model(h, sm, lvm) ==
  LET copied == [h EXCEPT ![lvm] = h[sm]]
  IN  [copied EXCEPT ![lvm].verified_queries = <<>>]

\* The loop comparing verified_queries like every other field.
RECURSIVE changed_from_all_fields(_, _, _)
changed_from_all_fields(model, last, i) ==
  IF i > Len(DESCRIPTOR_fields) THEN FALSE
  ELSE LET field == DESCRIPTOR_fields[i]
       IN  IF model[field] # last[field]
           THEN TRUE
           ELSE changed_from_all_fields(model, last, i + 1)

\* The loop returning the verdict on the first field it compares.
changed_from_first_field(model, last, i) ==
  IF i > Len(DESCRIPTOR_fields) THEN FALSE
  ELSE LET field == DESCRIPTOR_fields[i]
       IN  field # "verified_queries" /\ model[field] # last[field]

\* The loop of changed_from_last_validated_model from field i on: the first
\* field other than verified_queries whose values differ returns True.
RECURSIVE changed_from(_, _, _)
changed_from(model, last, i) ==
  IF i > Len(DESCRIPTOR_fields) THEN FALSE
  ELSE LET field == DESCRIPTOR_fields[i]
       IN  IF field # "verified_queries" /\ model[field] # last[field]
           THEN TRUE
           ELSE changed_from(model, last, i + 1)

changed_from_last_validated_model(h, sm, lvm) == changed_from(h[sm], h[lvm], 1)

\* ------------------------------------------------------------------ init
\* init_session_states: two fresh SemanticModel objects, validated False.
init_session_states ==
  /\ heap = [o \in ObjIds |-> EmptyModel]
  /\ semantic_model = "o1"
  /\ last_validated_model = "o2"
  /\ validated = FALSE

Quiet ==
  /\ op = "init"
  /\ calls = <<>>
  /\ messages = {}
  /\ raised = "none"
  /\ local_files = {}

Init ==
  /\ init_session_states
  /\ stage = {}
  /\ Quiet

\* ------------------------------------------------------------- publisher
\* What the Snowflake session does during one upload_yaml: every call works,
\* or connecting, the PUT or the REMOVE raises.
SnowflakeOutcomes == {"ok", "connect_fails", "put_fails", "remove_fails"}

\* The directory of tempfile.TemporaryDirectory kept when its block is left
\* by an exception: the files written into it stay on disk.
TemporaryDirectory_exit_on_success_only(files, exc) ==
  IF exc = "none" THEN {} ELSE files

\* Leaving the `with tempfile.TemporaryDirectory()` block, normally or by the
\* exception exc: the directory goes with the files written into it, so none
\* of them is left on the local disk.
TemporaryDirectory_exit(files, exc) == files \ files

\* upload_yaml with the REMOVE outside any try block: its failure leaves
\* upload_yaml as an exception.
upload_yaml_remove_unguarded(file_name, st, snow) ==
  IF snow = "connect_fails"
  THEN [stage |-> st,
        calls |-> <<Call("upload_yaml", file_name), Call("write", file_name),
                    Call("connect", "")>>,
        raised |-> "SnowflakeError",
        local |-> TemporaryDirectory_exit({file_name}, "SnowflakeError")]
  ELSE IF snow = "put_fails"
  THEN [stage |-> st,
        calls |-> <<Call("upload_yaml", file_name), Call("write", file_name),
                    Call("connect", ""),
                    Call("PUT", file_name)>>,
        raised |-> "SnowflakeError",
        local |-> TemporaryDirectory_exit({file_name}, "SnowflakeError")]
  ELSE IF file_name # _TMP_FILE_NAME
  THEN [stage |-> IF snow = "remove_fails"
                  THEN st \cup {file_name}
                  ELSE (st \cup {file_name}) \ {_TMP_FILE_NAME},
        calls |-> <<Call("upload_yaml", file_name), Call("write", file_name),
                    Call("connect", ""),
                    Call("PUT", file_name),
                    Call("REMOVE", _TMP_FILE_NAME)>>,
        raised |-> IF snow = "remove_fails" THEN "SnowflakeError" ELSE "none",
        local |-> TemporaryDirectory_exit({file_name}, IF snow = "remove_fails" THEN "SnowflakeError" ELSE "none")]
  ELSE [stage |-> st \cup {file_name},
        calls |-> <<Call("upload_yaml", file_name), Call("write", file_name),
                    Call("connect", ""),
                    Call("PUT", file_name)>>,
        raised |-> "none",
        local |-> TemporaryDirectory_exit({file_name}, "none")]

\* upload_yaml without the test on the file name: the REMOVE follows every PUT.
upload_yaml_always_removes(file_name, st, snow) ==
  IF snow = "connect_fails"
  THEN [stage |-> st,
        calls |-> <<Call("upload_yaml", file_name), Call("write", file_name),
                    Call("connect", "")>>,
        raised |-> "SnowflakeError",
        local |-> TemporaryDirectory_exit({file_name}, "SnowflakeError")]
  ELSE IF snow = "put_fails"
  THEN [stage |-> st,
        calls |-> <<Call("upload_yaml", file_name), Call("write", file_name),
                    Call("connect", ""),
                    Call("PUT", file_name)>>,
        raised |-> "SnowflakeError",
        local |-> TemporaryDirectory_exit({file_name}, "SnowflakeError")]
  ELSE [stage |-> IF snow = "remove_fails"
                  THEN st \cup {file_name}
                  ELSE (st \cup {file_name}) \ {_TMP_FILE_NAME},
        calls |-> <<Call("upload_yaml", file_name), Call("write", file_name),
                    Call("connect", ""),
                    Call("PUT", file_name),
                    Call("REMOVE", _TMP_FILE_NAME)>>,
        raised |-> "none",
        local |-> TemporaryDirectory_exit({file_name}, "none")]

\* upload_yaml(file_name) against stage st.  The result is the stage
\* afterwards, the Snowflake calls made, and the exception that leaves
\* upload_yaml ("none" when it returns normally).
upload_yaml(file_name, st, snow) ==
  IF snow = "connect_fails"
  THEN [stage |-> st,
        calls |-> <<Call("upload_yaml", file_name), Call("write", file_name),
                    Call("connect", "")>>,
        raised |-> "SnowflakeError",
        local |-> TemporaryDirectory_exit({file_name}, "SnowflakeError")]
  ELSE IF snow = "put_fails"
  THEN [stage |-> st,
        calls |-> <<Call("upload_yaml", file_name), Call("write", file_name),
                    Call("connect", ""),
                    Call("PUT", file_name)>>,
        raised |-> "SnowflakeError",
        local |-> TemporaryDirectory_exit({file_name}, "SnowflakeError")]
  ELSE IF file_name # _TMP_FILE_NAME
  THEN \* official upload: REMOVE the temp file inside try / except: pass
       [stage |-> IF snow = "remove_fails"
                  THEN st \cup {file_name}
                  ELSE (st \cup {file_name}) \ {_TMP_FILE_NAME},
        calls |-> <<Call("upload_yaml", file_name), Call("write", file_name),
                    Call("connect", ""),
                    Call("PUT", file_name),
                    Call("REMOVE", _TMP_FILE_NAME)>>,
        raised |-> "none",
        local |-> TemporaryDirectory_exit({file_name}, "none")]
  ELSE [stage |-> st \cup {file_name},
        calls |-> <<Call("upload_yaml", file_name), Call("write", file_name),
                    Call("connect", ""),
                    Call("PUT", file_name)>>,
        raised |-> "none",
        local |-> TemporaryDirectory_exit({file_name}, "none")]

\* validate_and_upload_tmp_yaml taking the snapshot before the upload: a failed
\* upload leaves the snapshot overwritten.
validate_and_upload_tmp_yaml_snapshot_first(h, sm, lvm, v, st, valid, snow) ==
  IF ~valid
  THEN [heap |-> h, validated |-> v, stage |-> st,
        calls |-> <<Call("validate", "")>>, local |-> {},
        messages |-> {Msg("warning", "Invalid YAML", "")}]
  ELSE LET up == upload_yaml(_TMP_FILE_NAME, st, snow)
       IN  IF up.raised # "none"
           THEN [heap |-> update_last_validated_model(h, sm, lvm),
                 validated |-> v, stage |-> up.stage,
                 calls |-> <<Call("validate", "")>> \o up.calls,
                 local |-> up.local,
                 messages |-> {Msg("warning", "Invalid YAML", "")}]
           ELSE [heap |-> update_last_validated_model(h, sm, lvm),
                 validated |-> TRUE, stage |-> up.stage,
                 calls |-> <<Call("validate", "")>> \o up.calls,
                 local |-> up.local,
                 messages |-> {Msg("success", "Successfully validated your model!", "")}]

\* validate_and_upload_tmp_yaml setting validated before the upload: a failed
\* upload leaves the flag set.
validate_and_upload_tmp_yaml_flag_first(h, sm, lvm, v, st, valid, snow) ==
  IF ~valid
  THEN [heap |-> h, validated |-> v, stage |-> st,
        calls |-> <<Call("validate", "")>>, local |-> {},
        messages |-> {Msg("warning", "Invalid YAML", "")}]
  ELSE LET up == upload_yaml(_TMP_FILE_NAME, st, snow)
       IN  IF up.raised # "none"
           THEN [heap |-> h, validated |-> TRUE, stage |-> up.stage,
                 calls |-> <<Call("validate", "")>> \o up.calls,
                 local |-> up.local,
                 messages |-> {Msg("warning", "Invalid YAML", "")}]
           ELSE [heap |-> update_last_validated_model(h, sm, lvm),
                 validated |-> TRUE, stage |-> up.stage,
                 calls |-> <<Call("validate", "")>> \o up.calls,
                 local |-> up.local,
                 messages |-> {Msg("success", "Successfully validated your model!", "")}]

\* validate_and_upload_tmp_yaml: validate, upload under the temp name, set
\* validated and take the snapshot; any exception of the first two ends the
\* try block and is shown as a warning.
validate_and_upload_tmp_yaml(h, sm, lvm, v, st, valid, snow) ==
  IF ~valid
  THEN [heap |-> h, validated |-> v, stage |-> st,
        calls |-> <<Call("validate", "")>>, local |-> {},
        messages |-> {Msg("warning", "Invalid YAML", "")}]
  ELSE LET up == upload_yaml(_TMP_FILE_NAME, st, snow)
       IN  IF up.raised # "none"
           THEN [heap |-> h, validated |-> v, stage |-> up.stage,
                 calls |-> <<Call("validate", "")>> \o up.calls,
                 local |-> up.local,
                 messages |-> {Msg("warning", "Invalid YAML", "")}]
           ELSE [heap |-> update_last_validated_model(h, sm, lvm),
                 validated |-> TRUE, stage |-> up.stage,
                 calls |-> <<Call("validate", "")>> \o up.calls,
                 local |-> up.local,
                 messages |-> {Msg("success", "Successfully validated your model!", "")}]

\* Outcomes that tell runs of upload_yaml apart, by the name uploaded under:
\* no REMOVE is issued for the temp name, so none can fail.
OutcomesFor(file_name) ==
  IF file_name = _TMP_FILE_NAME
  THEN SnowflakeOutcomes \ {"remove_fails"}
  ELSE SnowflakeOutcomes

\* The "Validate" button: one run of validate_and_upload_tmp_yaml, with
\* valid the verdict of validate and snow what Snowflake does.
Validate(valid, snow) ==
  LET r == validate_and_upload_tmp_yaml(heap, semantic_model,
             last_validated_model, validated, stage, valid, snow)
  IN  /\ heap' = r.heap
      /\ validated' = r.validated
      /\ stage' = r.stage
      /\ op' = "validate_and_upload_tmp_yaml"
      /\ calls' = r.calls
      /\ messages' = r.messages
      /\ raised' = "none"
      /\ local_files' = r.local
      /\ UNCHANGED <<semantic_model, last_validated_model>>

ValidateButton ==
  \E valid \in BOOLEAN :
    \E snow \in IF valid THEN OutcomesFor(_TMP_FILE_NAME) ELSE {"ok"} :
      Validate(valid, snow)

\* One run of the "Upload YAML to stage" dialog: file_name is the text in
\* the input box and submit says whether "Submit Upload" was clicked; valid
\* and snow1 are the outcomes of the re-validation, snow2 that of the upload.
user_upload_yaml(file_name, submit, valid, snow1, snow2) ==
  LET changed == changed_from_last_validated_model(heap, semantic_model,
                   last_validated_model)
      r == IF changed
           THEN validate_and_upload_tmp_yaml(heap, semantic_model,
                  last_validated_model, validated, stage, valid, snow1)
           ELSE [heap |-> heap, validated |-> validated, stage |-> stage,
                 calls |-> <<>>, local |-> {}, messages |-> {}]
      info == IF changed
              THEN {Msg("info", "Re-validating before uploading", "")}
              ELSE {}
      up == upload_yaml(file_name, r.stage, snow2)
  IN  /\ heap' = r.heap
      /\ validated' = r.validated
      /\ op' = "user_upload_yaml"
      /\ UNCHANGED <<semantic_model, last_validated_model>>
      /\ IF submit
         THEN /\ stage' = up.stage
              /\ calls' = r.calls \o up.calls
              /\ raised' = up.raised
              /\ local_files' = r.local \cup up.local
              /\ messages' = info \cup r.messages \cup
                   (IF up.raised = "none"
                    THEN {Msg("success", "Uploaded", file_name)} ELSE {})
         ELSE /\ stage' = r.stage
              /\ calls' = r.calls
              /\ raised' = "none"
              /\ local_files' = r.local
              /\ messages' = info \cup r.messages

\* The outcomes are drawn only where the run consults them.
UploadDialog ==
  \E file_name \in FileNames, submit \in BOOLEAN :
    \E valid \in IF changed_from_last_validated_model(heap, semantic_model,
                      last_validated_model) THEN BOOLEAN ELSE {TRUE} :
      \E snow1 \in IF valid /\ changed_from_last_validated_model(heap,
                        semantic_model, last_validated_model)
                    THEN OutcomesFor(_TMP_FILE_NAME) ELSE {"ok"} :
        \E snow2 \in IF submit THEN OutcomesFor(file_name) ELSE {"ok"} :
          user_upload_yaml(file_name, submit, valid, snow1, snow2)

\* ------------------------------------------------------ editing handlers
\* An editing handler mutates the message semantic_model refers to, in
\* place, and touches nothing else of the session.
Edit(handler, model, exc) ==
  /\ heap' = [heap EXCEPT ![semantic_model] = model]
  /\ op' = handler
  /\ calls' = <<>>
  /\ messages' = {}
  /\ raised' = exc
  /\ UNCHANGED <<semantic_model, last_validated_model, validated, stage,
                 local_files>>

\* display_semantic_model: name and description take the widgets' values.
display_semantic_model ==
  \E name \in ModelNames, description \in Descriptions :
    Edit("display_semantic_model",
         [Live EXCEPT !.name = name, !.description = description], "none")

\* The table display_table(table_name) and its buttons work on: the first
\* table of the live model with that name.
FirstNamed(tables, table_name) ==
  CHOOSE i \in 1..Len(tables) :
    /\ tables[i].name = table_name
    /\ \A j \in 1..(i - 1) : tables[j].name # table_name

\* The loop appending every row, empty or not.
StoreRows_every_row(rows) == rows

\* The rows of a data_editor as stored in the protobuf: the repeated field is
\* emptied and every row that is not empty is appended, in order.
RECURSIVE StoreRows(_)
StoreRows(rows) ==
  IF rows = <<>> THEN <<>>
  ELSE IF Head(rows) # "" THEN <<Head(rows)>> \o StoreRows(Tail(rows))
  ELSE StoreRows(Tail(rows))

\* Python's `del seq[idx]` for idx >= 0: removes the element at 0-based idx,
\* IndexError when idx is not below the length.
PyDel(seq, idx) ==
  IF idx < Len(seq)
  THEN [value |-> SubSeq(seq, 1, idx) \o SubSeq(seq, idx + 2, Len(seq)),
        raised |-> "none"]
  ELSE [value |-> seq, raised |-> "IndexError"]

\* delete_dimension(table, idx): the table afterwards and the exception raised.
delete_dimension(table, idx) ==
  IF Len(table.dimensions) < idx
  THEN [table |-> table, raised |-> "none"]
  ELSE LET d == PyDel(table.dimensions, idx)
       IN  [table |-> [table EXCEPT !.dimensions = d.value], raised |-> d.raised]

\* delete_measure pasted from delete_dimension with the `del` line left as it was.
delete_measure_pasted(table, idx) ==
  IF Len(table.measures) < idx
  THEN [table |-> table, raised |-> "none"]
  ELSE LET d == PyDel(table.dimensions, idx)
       IN  [table |-> [table EXCEPT !.dimensions = d.value], raised |-> d.raised]

\* delete_measure(table, idx)
delete_measure(table, idx) ==
  IF Len(table.measures) < idx
  THEN [table |-> table, raised |-> "none"]
  ELSE LET d == PyDel(table.measures, idx)
       IN  [table |-> [table EXCEPT !.measures = d.value], raised |-> d.raised]

\* delete_time_dimension(table, idx)
delete_time_dimension(table, idx) ==
  IF Len(table.time_dimensions) < idx
  THEN [table |-> table, raised |-> "none"]
  ELSE LET d == PyDel(table.time_dimensions, idx)
       IN  [table |-> [table EXCEPT !.time_dimensions = d.value],
            raised |-> d.raised]

\* Indexes a "Delete" callback may be run with.
DeleteIndexes == 0..(MaxLen + 1)

\* The "Delete" button of row idx of a collection of the table display_table
\* shows for table t: the on_click callback with args (table, idx).
DeleteDimension(t, idx) ==
  LET i == FirstNamed(Live.tables, Live.tables[t].name)
      r == delete_dimension(Live.tables[i], idx)
  IN  Edit("delete_dimension", [Live EXCEPT !.tables[i] = r.table], r.raised)

DeleteMeasure(t, idx) ==
  LET i == FirstNamed(Live.tables, Live.tables[t].name)
      r == delete_measure(Live.tables[i], idx)
  IN  Edit("delete_measure", [Live EXCEPT !.tables[i] = r.table], r.raised)

DeleteTimeDimension(t, idx) ==
  LET i == FirstNamed(Live.tables, Live.tables[t].name)
      r == delete_time_dimension(Live.tables[i], idx)
  IN  Edit("delete_time_dimension", [Live EXCEPT !.tables[i] = r.table],
           r.raised)

DeleteButtons ==
  \E t \in 1..Len(Live.tables), idx \in DeleteIndexes :
    \/ DeleteDimension(t, idx)
    \/ DeleteMeasure(t, idx)
    \/ DeleteTimeDimension(t, idx)

\* A Dimension holding the values of the dialog's widgets.
DimensionOf(name, synonyms, sample_values) ==
  [name |-> name, synonyms |-> StoreRows(synonyms),
   sample_values |-> StoreRows(sample_values)]

\* add_dimension on the table shown for table t, with "Add" clicked: a
\* Dimension built from the widgets is appended to the table's dimensions.
add_dimension(t, name, synonyms, sample_values) ==
  LET i == FirstNamed(Live.tables, Live.tables[t].name)
  IN  /\ Len(Live.tables[i].dimensions) < MaxCols
      /\ Edit("add_dimension",
              [Live EXCEPT !.tables[i].dimensions =
                 Append(@, DimensionOf(name, synonyms, sample_values))],
              "none")

\* edit_dimension on row d of that table: every run of the dialog stores the
\* widgets' values in the dimension.
edit_dimension(t, d, name, synonyms, sample_values) ==
  LET i == FirstNamed(Live.tables, Live.tables[t].name)
  IN  /\ d \in 1..Len(Live.tables[i].dimensions)
      /\ Edit("edit_dimension",
              [Live EXCEPT !.tables[i].dimensions[d] =
                 DimensionOf(name, synonyms, sample_values)],
              "none")

\* edit_measure on row d of the measures of that table.  (The aggregation
\* select box writes default_aggregation, a field of its own, and is left out.)
edit_measure(t, d, name, synonyms, sample_values) ==
  LET i == FirstNamed(Live.tables, Live.tables[t].name)
  IN  /\ d \in 1..Len(Live.tables[i].measures)
      /\ Edit("edit_measure",
              [Live EXCEPT !.tables[i].measures[d] =
                 [name |-> name, synonyms |-> StoreRows(synonyms),
                  sample_values |-> StoreRows(sample_values)]],
              "none")

\* edit_time_dimension on row d of the time dimensions of that table.
edit_time_dimension(t, d, name, synonyms, sample_values) ==
  LET i == FirstNamed(Live.tables, Live.tables[t].name)
  IN  /\ d \in 1..Len(Live.tables[i].time_dimensions)
      /\ Edit("edit_time_dimension",
              [Live EXCEPT !.tables[i].time_dimensions[d] =
                 [name |-> name, synonyms |-> StoreRows(synonyms),
                  sample_values |-> StoreRows(sample_values)]],
              "none")

\* display_table for table t: the table's name and synonyms take the
\* widgets' values.
display_table(t, name, synonyms) ==
  LET i == FirstNamed(Live.tables, Live.tables[t].name)
  IN  Edit("display_table",
           [Live EXCEPT !.tables[i].name = name,
                        !.tables[i].synonyms = StoreRows(synonyms)], "none")

\* --------------------------------------------------------------- add table
\* What raw_schema_to_semantic_context returns for the physical table typed
\* in: the columns of its one table, or "error" when it raises.
InferredSchema ==
  [dimensions |-> <<NewColumn("id")>>,
   measures |-> <<NewColumn("amount")>>,
   time_dimensions |-> <<NewColumn("ts")>>]
NoSchema == [dimensions |-> <<>>, measures |-> <<>>, time_dimensions |-> <<>>]
Inferences ==
  {[raised |-> "none", table |-> InferredSchema],
   [raised |-> "SnowflakeError", table |-> NoSchema]}

\* The duplicate test looking at the first table only.
TableNamed_first_only(tables, name) == tables # <<>> /\ tables[1].name = name

TableNamed(tables, name) == \E i \in 1..Len(tables) : tables[i].name = name

\* One run of the "Add Table" dialog with name typed in, add saying whether
\* "Add" was clicked and inferred the outcome of the schema lookup.
add_new_table(name, add, inferred) ==
  LET exists == TableNamed(Live.tables, name)
      shown == IF exists THEN {Msg("error", "Table already exists", name)}
               ELSE {}
      table == [NewTable(name) EXCEPT
                  !.dimensions = inferred.table.dimensions,
                  !.measures = inferred.table.measures,
                  !.time_dimensions = inferred.table.time_dimensions]
  IN  /\ op' = "add_new_table"
      /\ raised' = "none"
      /\ UNCHANGED <<semantic_model, last_validated_model, validated, stage,
                     local_files>>
      /\ IF ~add
         THEN /\ messages' = shown
              /\ calls' = <<>>
              /\ UNCHANGED heap
         ELSE IF inferred.raised # "none"
         THEN /\ messages' = shown \cup {Msg("error", "Error adding table", "")}
              /\ calls' = <<Call("raw_schema_to_semantic_context", "")>>
              /\ UNCHANGED heap
         ELSE IF exists
         THEN /\ messages' = shown
              /\ calls' = <<Call("raw_schema_to_semantic_context", "")>>
              /\ UNCHANGED heap
         ELSE /\ Len(Live.tables) < MaxTables
              /\ messages' = shown
              /\ calls' = <<Call("raw_schema_to_semantic_context", "")>>
              /\ heap' = [heap EXCEPT ![semantic_model].tables = Append(@, table)]

AddNewTable ==
  \E name \in TableNames, add \in BOOLEAN, inferred \in Inferences :
    add_new_table(name, add, inferred)

\* ------------------------------------------------------------------ import
\* Models the files offered to the uploader hold.
OrdersTable ==
  [NewTable("orders") EXCEPT !.dimensions = InferredSchema.dimensions,
                             !.measures = InferredSchema.measures,
                             !.time_dimensions = InferredSchema.time_dimensions]
ImportableModels ==
  {[name |-> "m", description |-> "", tables |-> <<OrdersTable>>,
    verified_queries |-> vq] : vq \in {<<>>, <<"q">>}}

\* yaml_to_semantic_model on the uploaded file: it raises on a file that does
\* not parse, yields None, or yields the model the file holds.
UploadedFiles ==
  {[holds |-> "malformed", model |-> EmptyModel],
   [holds |-> "nothing", model |-> EmptyModel]}
  \cup {[holds |-> "model", model |-> m] : m \in ImportableModels}
yaml_to_semantic_model(file) ==
  IF file.holds = "malformed"
  THEN [raised |-> "ParseError", none |-> TRUE, pb |-> EmptyModel]
  ELSE IF file.holds = "nothing"
  THEN [raised |-> "none", none |-> TRUE, pb |-> EmptyModel]
  ELSE [raised |-> "none", none |-> FALSE, pb |-> file.model]

\* Objects no session reference reaches are gone.
Collect(h, roots) == [o \in ObjIds |-> IF o \in roots THEN h[o] ELSE EmptyModel]

\* import_yaml putting a new, empty model in the session before it parses
\* the file: a file that fails to parse leaves the session with that one.
import_yaml_resetting(file) ==
  LET parsed == yaml_to_semantic_model(file)
      new == CHOOSE o \in ObjIds : o \notin {semantic_model, last_validated_model}
  IN  /\ op' = "import_yaml"
      /\ calls' = <<Call("yaml_to_semantic_model", "")>>
      /\ raised' = "none"
      /\ UNCHANGED <<last_validated_model, validated, stage, local_files>>
      /\ IF parsed.raised # "none"
         THEN /\ messages' = {Msg("error", "Failed to import", "")}
              /\ semantic_model' = new
              /\ heap' = Collect([heap EXCEPT ![new] = EmptyModel],
                                 {new, last_validated_model})
         ELSE IF parsed.none
         THEN /\ messages' = {Msg("error", "Failed to import, did you choose a file?", "")}
              /\ semantic_model' = new
              /\ heap' = Collect([heap EXCEPT ![new] = EmptyModel],
                                 {new, last_validated_model})
         ELSE /\ semantic_model' = new
              /\ heap' = Collect([heap EXCEPT ![new] = parsed.pb],
                                 {new, last_validated_model})
              /\ messages' = {Msg("success", "Successfully imported", parsed.pb.name)}

\* import_yaml with file chosen in the uploader.
import_yaml_of(file) ==
  LET parsed == yaml_to_semantic_model(file)
      new == CHOOSE o \in ObjIds : o \notin {semantic_model, last_validated_model}
  IN  /\ op' = "import_yaml"
      /\ calls' = <<Call("yaml_to_semantic_model", "")>>
      /\ raised' = "none"
      /\ UNCHANGED <<last_validated_model, validated, stage, local_files>>
      /\ IF parsed.raised # "none"
         THEN /\ messages' = {Msg("error", "Failed to import", "")}
              /\ UNCHANGED <<heap, semantic_model>>
         ELSE IF parsed.none
         THEN /\ messages' = {Msg("error", "Failed to import, did you choose a file?", "")}
              /\ UNCHANGED <<heap, semantic_model>>
         ELSE /\ semantic_model' = new
              /\ heap' = Collect([heap EXCEPT ![new] = parsed.pb],
                                 {new, last_validated_model})
              /\ messages' = {Msg("success", "Successfully imported", parsed.pb.name)}

\* import_yaml with a file chosen.
import_yaml == \E file \in UploadedFiles : import_yaml_of(file)

\* ---------------------------------------------------------- specifications
\* The session: building a model, validating and publishing it.
Next ==
  \/ display_semantic_model
  \/ AddNewTable
  \/ import_yaml
  \/ ValidateButton
  \/ UploadDialog

Spec == Init /\ [][Next]_vars

\* Deleting rows: a session whose model holds one table with any columns.
SeqsUpTo(S, n) == UNION {[1..k -> S] : k \in 0..n}
ColumnLists == SeqsUpTo({NewColumn(n) : n \in ColNames}, MaxLen)
TablesWithColumns ==
  {[NewTable("orders") EXCEPT !.dimensions = d, !.measures = m,
                              !.time_dimensions = td] :
     d \in ColumnLists, m \in ColumnLists, td \in ColumnLists}

InitDelete ==
  /\ \E table \in TablesWithColumns :
       heap = [o \in ObjIds |->
                 IF o = "o1" THEN [EmptyModel EXCEPT !.name = "m",
                                                     !.tables = <<table>>]
                 ELSE EmptyModel]
  /\ semantic_model = "o1"
  /\ last_validated_model = "o2"
  /\ validated = FALSE
  /\ stage = {}
  /\ Quiet

NextDelete == DeleteButtons

SpecDelete == InitDelete /\ [][NextDelete]_vars

\* Tracking changes: editing an imported model between validations.  The
\* dimension dialogs are filled in one of two ways.
DialogInputs ==
  {[name |-> "id", synonyms |-> <<>>, sample_values |-> <<>>],
   [name |-> "ts", synonyms |-> <<"a", "", "b">>, sample_values |-> <<"", "1">>]}

AddDimensionDialog ==
  \E t \in 1..Len(Live.tables), in \in DialogInputs :
    add_dimension(t, in.name, in.synonyms, in.sample_values)

EditDimensionDialog ==
  \E t \in 1..Len(Live.tables), d \in 1..MaxCols, in \in DialogInputs :
    edit_dimension(t, d, in.name, in.synonyms, in.sample_values)

NextTrack ==
  \/ display_semantic_model
  \/ import_yaml
  \/ AddDimensionDialog
  \/ EditDimensionDialog
  \/ DeleteButtons
  \/ ValidateButton

SpecTrack == Init /\ [][NextTrack]_vars

\* Editing grids: a session holding an imported model with one table that
\* has one column of each kind; the table form and the three edit dialogs
\* are run with any names and grid rows.
InitEdit ==
  /\ heap = [o \in ObjIds |->
               IF o = "o1"
               THEN [EmptyModel EXCEPT !.name = "m", !.tables = <<OrdersTable>>]
               ELSE EmptyModel]
  /\ semantic_model = "o1"
  /\ last_validated_model = "o2"
  /\ validated = FALSE
  /\ stage = {}
  /\ Quiet

TableForm ==
  \E t \in 1..Len(Live.tables), name \in TableNames, synonyms \in EditorRows :
    display_table(t, name, synonyms)

EditDialogs ==
  \E t \in 1..Len(Live.tables), d \in 1..MaxCols, name \in ColNames,
     synonyms \in EditorRows, sample_values \in EditorRows :
    \/ edit_dimension(t, d, name, synonyms, sample_values)
    \/ edit_measure(t, d, name, synonyms, sample_values)
    \/ edit_time_dimension(t, d, name, synonyms, sample_values)

NextEdit ==
  \/ TableForm
  \/ EditDialogs

SpecEdit == InitEdit /\ [][NextEdit]_vars

\* ------------------------------------------------- vocabulary of the claims
Diverged == changed_from_last_validated_model(heap, semantic_model,
              last_validated_model)
CallsOf(kind) == {i \in 1..Len(calls) : calls[i].call = kind}
\* The upload_yaml run call i belongs to: the last one started at or before i.
UploadOf(i) ==
  LET starts == {j \in CallsOf("upload_yaml") : j <= i}
  IN  CHOOSE j \in starts : \A k \in starts : k <= j
NamesOf(tables) == {tables[i].name : i \in 1..Len(tables)}
UniqueNames(tables) ==
  \A i, j \in 1..Len(tables) : tables[i].name = tables[j].name => i = j
Validated == Msg("success", "Successfully validated your model!", "")

\* ---------------------------------------------------------------- claim C1
\* C1: the upload dialog never calls upload_yaml under a name other than the
\* temp name while the live model still differs from the last validated
\* snapshot.  (Nothing after that call touches either model, so the test is
\* made on the state the dialog run ends in.)
C1_NoDivergentNamedUpload ==
  (op = "user_upload_yaml" /\
   \E i \in CallsOf("upload_yaml") : calls[i].arg # _TMP_FILE_NAME)
    => ~Diverged

\* ---------------------------------------------------------------- claim C7
\* C7: a run of the Add Table dialog with the name of a table the model
\* already has shows the "already exists" error and leaves the tables as they
\* were, and no run of the dialog makes table names that were distinct collide.
C7_DuplicateTableRejected ==
  [][\A name \in TableNames, add \in BOOLEAN, inferred \in Inferences :
       add_new_table(name, add, inferred) =>
         /\ name \in NamesOf(heap[semantic_model].tables) =>
              /\ heap'[semantic_model'].tables = heap[semantic_model].tables
              /\ Msg("error", "Table already exists", name) \in messages'
         /\ UniqueNames(heap[semantic_model].tables) =>
              UniqueNames(heap'[semantic_model'].tables)]_vars

\* A run with "Add" clicked and the schema fetched that was turned down by
\* the second test, in a model holding two tables.
C7_Witness ==
  /\ op = "add_new_table"
  /\ calls = <<Call("raw_schema_to_semantic_context", "")>>
  /\ \E n \in TableNames : messages = {Msg("error", "Table already exists", n)}
  /\ Len(Live.tables) = 2

\* ---------------------------------------------------------------- claim C8
\* C8: a run of upload_yaml under a name other than the temp name whose PUT
\* works issues the REMOVE of the temp artifact exactly once, after the PUT,
\* and ends normally with the artifact on the stage whether or not the REMOVE
\* worked.
C8_CleanupOnceAndSwallowed ==
  [][\A file_name \in FileNames \ {_TMP_FILE_NAME}, valid \in BOOLEAN,
        snow1 \in SnowflakeOutcomes, snow2 \in {"ok", "remove_fails"} :
       (op' = "user_upload_yaml" /\
        user_upload_yaml(file_name, TRUE, valid, snow1, snow2)) =>
         /\ raised' = "none"
         /\ Msg("success", "Uploaded", file_name) \in messages'
         /\ file_name \in stage'
         /\ \E p \in 1..Len(calls') :
              /\ calls'[p] = Call("PUT", file_name)
              /\ {i \in 1..Len(calls') : calls'[i].call = "REMOVE"} = {p + 1}
              /\ calls'[p + 1] = Call("REMOVE", _TMP_FILE_NAME)]_vars

\* A named upload that ended normally although its REMOVE failed: the temp
\* artifact is still on the stage after the REMOVE was issued.
C8_Witness ==
  /\ op = "user_upload_yaml"
  /\ raised = "none"
  /\ CallsOf("REMOVE") # {}
  /\ _TMP_FILE_NAME \in stage
  /\ \E f \in FileNames : Msg("success", "Uploaded", f) \in messages

\* ---------------------------------------------------------------- claim C9
\* C9: no REMOVE is issued by a run of upload_yaml under the temp name, so
\* validate_and_upload_tmp_yaml never issues one.
C9_NoCleanupUnderTempName ==
  /\ \A i \in CallsOf("REMOVE") : calls[UploadOf(i)].arg # _TMP_FILE_NAME
  /\ op = "validate_and_upload_tmp_yaml" => CallsOf("REMOVE") = {}

\* A validation that uploaded the temp artifact.
C9_Witness ==
  /\ op = "validate_and_upload_tmp_yaml"
  /\ Call("PUT", _TMP_FILE_NAME) \in {calls[i] : i \in 1..Len(calls)}
  /\ Validated \in messages
  /\ _TMP_FILE_NAME \in stage

\* --------------------------------------------------------------- claim C10
\* C10: no parse, validation, upload or schema-inference failure leaves
\* import_yaml, validate_and_upload_tmp_yaml, user_upload_yaml or
\* add_new_table as an uncaught exception.
C10_NoUncaughtFailure ==
  op \in {"import_yaml", "validate_and_upload_tmp_yaml", "user_upload_yaml",
          "add_new_table"} => raised = "none"

\* ---------------------------------------------------------------- claim C2
\* C2: right after a snapshot the live model is reported as not changed,
\* whatever its verified_queries hold, and a step that changes nothing of the
\* live model but its verified_queries keeps it reported as not changed.
TrackedFields == {"name", "description", "tables"}
OnlyVerifiedQueriesMutated ==
  /\ heap'[last_validated_model'] = heap[last_validated_model]
  /\ \A f \in TrackedFields :
       heap'[semantic_model'][f] = heap[semantic_model][f]
C2_NotDivergedAfterSnapshot ==
  /\ [](Validated \in messages => ~Diverged)
  /\ [][(~Diverged /\ OnlyVerifiedQueriesMutated) => ~Diverged']_vars

\* A validated model replaced, by an import, with one that differs from the
\* snapshot in its verified queries only.
C2_Witness ==
  /\ op = "import_yaml"
  /\ validated
  /\ Live.verified_queries # <<>>
  /\ Snapshot.tables # <<>>
  /\ \A f \in TrackedFields : Live[f] = Snapshot[f]

\* ---------------------------------------------------------------- claim C3
\* C3: the live model is reported as changed exactly when its name,
\* description or tables differ from the snapshot's; so from a state reported
\* as not changed, any step that changes one of the three makes it reported.
C3_DivergedIffTrackedFieldDiffers ==
  /\ [](Diverged <=> \E f \in TrackedFields : Live[f] # Snapshot[f])
  /\ [][(/\ ~Diverged
         /\ heap'[last_validated_model'] = heap[last_validated_model]
         /\ \E f \in TrackedFields :
              heap'[semantic_model'][f] # heap[semantic_model][f])
        => Diverged']_vars

\* A validated model whose only difference from the snapshot was made by
\* editing a dimension.
C3_Witness ==
  /\ op = "edit_dimension"
  /\ validated
  /\ Diverged
  /\ Live.name = Snapshot.name
  /\ Live.description = Snapshot.description
  /\ Len(Live.tables) = Len(Snapshot.tables)

\* ---------------------------------------------------------------- claim C4
\* C4: the step that takes the snapshot leaves the live model as it was and
\* makes the snapshot the live model with verified_queries emptied; the two
\* are different objects, and no step that changes the live model changes
\* the snapshot.
C4_SnapshotIsIndependentCopy ==
  /\ [][(op' = "validate_and_upload_tmp_yaml" /\ Validated \in messages') =>
         /\ semantic_model' = semantic_model
         /\ heap'[semantic_model] = heap[semantic_model]
         /\ heap'[last_validated_model'] =
              [heap[semantic_model] EXCEPT !.verified_queries = <<>>]]_vars
  /\ [](semantic_model # last_validated_model)
  /\ [][heap'[semantic_model'] # heap[semantic_model] =>
         heap'[last_validated_model'] = heap[last_validated_model]]_vars

\* A snapshot just taken of a model that holds a table and a verified query.
C4_Witness ==
  /\ op = "validate_and_upload_tmp_yaml"
  /\ Validated \in messages
  /\ Live.verified_queries # <<>>
  /\ Live.tables # <<>>
  /\ Snapshot = [Live EXCEPT !.verified_queries = <<>>]

\* ---------------------------------------------------------------- claim C5
\* C5: a delete callback run with idx at or past the end of its collection
\* raises nothing and leaves the live model as it was.
PastEnd(t, field, idx) ==
  idx >= Len(Live.tables[FirstNamed(Live.tables, Live.tables[t].name)][field])
C5_DeletePastEndIsNoOp ==
  [][\A t \in 1..Len(heap[semantic_model].tables), idx \in DeleteIndexes :
       /\ (DeleteDimension(t, idx) /\ PastEnd(t, "dimensions", idx)) =>
            (raised' = "none" /\ heap' = heap)
       /\ (DeleteMeasure(t, idx) /\ PastEnd(t, "measures", idx)) =>
            (raised' = "none" /\ heap' = heap)
       /\ (DeleteTimeDimension(t, idx) /\ PastEnd(t, "time_dimensions", idx)) =>
            (raised' = "none" /\ heap' = heap)]_vars

\* ---------------------------------------------------------------- claim C6
\* C6: a delete callback run with idx inside its collection raises nothing,
\* takes out the element at idx and keeps the others in order, and leaves the
\* rest of the table as it was.
RemovedAt(old, new, idx) ==
  /\ Len(new) = Len(old) - 1
  /\ \A j \in 1..idx : new[j] = old[j]
  /\ \A j \in (idx + 1)..Len(new) : new[j] = old[j + 1]
DeletedFrom(t, field, idx) ==
  LET i == FirstNamed(heap[semantic_model].tables,
                      heap[semantic_model].tables[t].name)
      old == heap[semantic_model].tables[i]
      new == heap'[semantic_model'].tables[i]
  IN  /\ raised' = "none"
      /\ RemovedAt(old[field], new[field], idx)
      /\ \A f \in DOMAIN old : f # field => new[f] = old[f]
      /\ heap'[semantic_model'] =
           [heap[semantic_model] EXCEPT !.tables[i] = new]
C6_DeleteRemovesExactlyThatRow ==
  [][\A t \in 1..Len(heap[semantic_model].tables), idx \in DeleteIndexes :
       /\ (DeleteDimension(t, idx) /\ ~PastEnd(t, "dimensions", idx)) =>
            DeletedFrom(t, "dimensions", idx)
       /\ (DeleteMeasure(t, idx) /\ ~PastEnd(t, "measures", idx)) =>
            DeletedFrom(t, "measures", idx)
       /\ (DeleteTimeDimension(t, idx) /\ ~PastEnd(t, "time_dimensions", idx)) =>
            DeletedFrom(t, "time_dimensions", idx)]_vars

\* A delete that left two measures in a table whose other collections are
\* not empty.
C6_Witness ==
  /\ op = "delete_measure"
  /\ raised = "none"
  /\ Live.tables # <<>>
  /\ Live.tables[1].measures = <<NewColumn("id"), NewColumn("ts")>>
  /\ Live.tables[1].dimensions # <<>>
  /\ Live.tables[1].time_dimensions # <<>>

\* --------------------------------------------------------------- claim C11
\* C11: the snapshot is written only by a run in which the validation and the
\* temp upload both worked, and then it becomes the live model without its
\* verified queries; every other step (edit, import, failed validation,
\* upload) leaves it as it was, and it is the empty model until the first
\* such run.
ValidationRuns == {"validate_and_upload_tmp_yaml", "user_upload_yaml"}
C11_SnapshotOnlyBySuccessfulValidation ==
  /\ [](~validated => Snapshot = EmptyModel)
  /\ [][last_validated_model' = last_validated_model]_vars
  /\ [][heap'[last_validated_model'] # heap[last_validated_model] =>
         /\ op' \in ValidationRuns
         /\ Validated \in messages'
         /\ heap'[last_validated_model'] =
              [heap[semantic_model] EXCEPT !.verified_queries = <<>>]]_vars
  /\ [][\A valid \in BOOLEAN, snow \in SnowflakeOutcomes :
         (Validate(valid, snow) /\ (~valid \/ snow \in {"connect_fails", "put_fails"}))
           => heap'[last_validated_model'] = heap[last_validated_model]]_vars

\* A validation that failed on a model edited since the last successful one:
\* the snapshot still holds the table validated before.
C11_Witness ==
  /\ op = "validate_and_upload_tmp_yaml"
  /\ Msg("warning", "Invalid YAML", "") \in messages
  /\ validated
  /\ Diverged
  /\ Snapshot.tables # <<>>

\* --------------------------------------------------------------- claim C14
\* C14: validated is False in a new session; it turns True only in a run in
\* which validate and the temp upload both worked, the run that also takes
\* the snapshot; and no step turns it back to False.
PutOfTempFile == Call("PUT", _TMP_FILE_NAME)
C14_ValidatedFlag ==
  /\ [](op = "init" => ~validated)
  /\ [][(~validated /\ validated') =>
         /\ op' \in ValidationRuns
         /\ Validated \in messages'
         /\ \E i \in 1..Len(calls') :
              /\ calls'[i] = Call("validate", "")
              /\ i + 4 <= Len(calls')
              /\ calls'[i + 4] = PutOfTempFile
         /\ heap'[last_validated_model'] =
              [heap[semantic_model] EXCEPT !.verified_queries = <<>>]]_vars
  /\ [][validated => validated']_vars
  /\ [][\A valid \in BOOLEAN, snow \in SnowflakeOutcomes :
         (Validate(valid, snow) /\ (~valid \/ snow \in {"connect_fails", "put_fails"}))
           => validated' = validated]_vars

\* The flag still set after an import and a validation that failed.
C14_Witness ==
  /\ validated
  /\ op = "validate_and_upload_tmp_yaml"
  /\ Msg("warning", "Invalid YAML", "") \in messages
  /\ semantic_model # "o1"

\* --------------------------------------------------------------- claim C12
\* C12: a run of the table form or of an edit dialog leaves, in the synonyms
\* (and sample values) of the entity it edits, exactly the rows of the grid
\* that are not empty, in the grid's order, whatever the collection held
\* before: rows "a", "", "b" are stored as "a", "b".
NonEmptyRows(rows) == SelectSeq(rows, LAMBDA r : r # "")
EditedTable(t) ==
  heap'[semantic_model'].tables[
    FirstNamed(heap[semantic_model].tables, heap[semantic_model].tables[t].name)]
Committed(entity, synonyms, sample_values) ==
  /\ entity.synonyms = NonEmptyRows(synonyms)
  /\ entity.sample_values = NonEmptyRows(sample_values)
C12_GridRowsReplaceCollection ==
  [][\A t \in 1..Len(heap[semantic_model].tables), d \in 1..MaxCols,
        name \in ColNames \cup TableNames,
        synonyms \in EditorRows, sample_values \in EditorRows :
       /\ edit_dimension(t, d, name, synonyms, sample_values) =>
            Committed(EditedTable(t).dimensions[d], synonyms, sample_values)
       /\ edit_measure(t, d, name, synonyms, sample_values) =>
            Committed(EditedTable(t).measures[d], synonyms, sample_values)
       /\ edit_time_dimension(t, d, name, synonyms, sample_values) =>
            Committed(EditedTable(t).time_dimensions[d], synonyms, sample_values)
       /\ display_table(t, name, synonyms) =>
            EditedTable(t).synonyms = NonEmptyRows(synonyms)]_vars

\* A measure whose grid rows "a", "", "b" were stored as "a", "b", in a table
\* whose own synonyms and whose dimension and time dimension hold them too.
C12_Witness ==
  /\ op = "edit_measure"
  /\ Live.tables[1].measures[1].synonyms = <<"a", "b">>
  /\ Live.tables[1].measures[1].sample_values = <<>>
  /\ Live.tables[1].synonyms = <<"a", "b">>
  /\ Live.tables[1].dimensions[1].sample_values = <<"a", "b">>
  /\ Live.tables[1].time_dimensions[1].synonyms = <<"a", "b">>

\* --------------------------------------------------------------- claim C13
\* C13: whatever way a run of upload_yaml ends (the PUT worked, connecting
\* failed, the PUT failed, the REMOVE failed), the file it wrote into its
\* temporary directory is no longer on the local disk afterwards.
C13_TempFileGone == local_files = {}

\* A named upload that wrote its file and then failed in the PUT, leaving
\* upload_yaml by the exception.
C13_Witness ==
  /\ op = "user_upload_yaml"
  /\ raised = "SnowflakeError"
  /\ \E f \in FileNames :
       /\ Call("write", f) \in {calls[i] : i \in 1..Len(calls)}
       /\ calls[Len(calls)] = Call("PUT", f)
  /\ local_files = {}

\* --------------------------------------------------------------- claim C15
\* C15: import_yaml leaves the snapshot and the validated flag as they were;
\* on a file that does not parse, or parses to nothing, it shows an error and
\* leaves the live model as it was; otherwise the session's live model
\* becomes the parsed model, which is reported as changed when its name,
\* description or tables differ from the snapshot's.
C15_ImportReplacesLiveModelOnly ==
  [][\A file \in UploadedFiles :
       import_yaml_of(file) =>
         /\ last_validated_model' = last_validated_model
         /\ heap'[last_validated_model'] = heap[last_validated_model]
         /\ validated' = validated
         /\ file.holds # "model" =>
              /\ semantic_model' = semantic_model
              /\ heap'[semantic_model'] = heap[semantic_model]
              /\ \E m \in messages' : m.kind = "error"
         /\ file.holds = "model" =>
              /\ heap'[semantic_model'] = file.model
              /\ (\E f \in TrackedFields :
                    file.model[f] # heap[last_validated_model][f]) => Diverged']_vars

\* An import, into a validated session, of a model that differs from the
\* snapshot in its tables.
C15_Witness ==
  /\ op = "import_yaml"
  /\ \E m \in messages : m.kind = "success"
  /\ validated
  /\ Diverged
  /\ Live \in ImportableModels
  /\ Snapshot.tables # Live.tables
  /\ Snapshot.tables # <<>>

====
